---- MODULE Spec2Model ----
(***************************************************************************)
(* Model of the USAspending "spending by award" client:                    *)
(*   usaspending_api.py  fetch_spending_data, save_to_json, save_to_csv,   *)
(*                       main                                              *)
(*   examples.py         example_1 .. example_6                            *)
(* The remote API, the clock and the callers' arguments are the            *)
(* environment; everything else is translated from the two source files.   *)
(***************************************************************************)
EXTENDS Integers, Sequences, FiniteSets

\* ------------------------------------------------------------------ bounds
MaxRecords == 2     \* longest result sequence the simulated API returns
MaxClock   == 2     \* distinct clock readings used for generated filenames
MaxPage    == 2     \* largest page number a direct caller asks for
MaxExports == 2     \* exports a direct caller issues in a row

\* ------------------------------------------------- Python / JSON values
\* Every value is a one-field record, so values of different types compare
\* unequal instead of being incomparable.
None      == [null |-> TRUE]
Num(n)    == [num |-> n]
Str(s)    == [str |-> s]
List(xs)  == [list |-> xs]
Obj(ps)   == [obj |-> ps]
Pair(k, v) == [k |-> k, v |-> v]

IsDict(v) == "obj" \in DOMAIN v
IsList(v) == "list" \in DOMAIN v
IsSized(v) == IsDict(v) \/ IsList(v) \/ "str" \in DOMAIN v

HasKey(d, key) == \E i \in 1..Len(d.obj) : d.obj[i].k = key

\* dict.get(key, default)
Get(d, key, default) ==
    IF HasKey(d, key)
    THEN d.obj[CHOOSE i \in 1..Len(d.obj) : d.obj[i].k = key].v
    ELSE default

\* list(d.keys()), in insertion order
Keys(d) == [i \in 1..Len(d.obj) |-> d.obj[i].k]

\* Python truth value: `if data:` / `if not results:` / `if error_detail:`
Truthy(v) ==
    IF v = None THEN FALSE
    ELSE IF IsDict(v) THEN Len(v.obj) > 0
    ELSE IF IsList(v) THEN Len(v.list) > 0
    ELSE IF "num" \in DOMAIN v THEN v.num # 0
    ELSE v.str # ""

\* --------------------------------------------------- fetch_spending_data
Url == "https://api.usaspending.gov/api/v2/search/spending_by_award/"

DefaultFields ==
    List(<< Str("Award ID"), Str("Recipient Name"), Str("Start Date"),
            Str("End Date"), Str("Award Amount"), Str("Total Outlays"),
            Str("Awarding Agency"), Str("Awarding Sub Agency"),
            Str("Award Type"), Str("Funding Agency"),
            Str("Funding Sub Agency") >>)

TimePeriod(start, end) ==
    Pair("time_period",
         List(<< Obj(<< Pair("start_date", Str(start)),
                        Pair("end_date", Str(end)) >>) >>))

DefaultFilters == Obj(<< TimePeriod("2024-01-01", "2024-12-31") >>)

\* lines 33-71: default substitution and the request payload
BuildPayload_falsy(filters, fields, limit, page) ==
    Obj(<< Pair("filters", IF Truthy(filters) THEN filters ELSE DefaultFilters),
           Pair("fields", IF Truthy(fields) THEN fields ELSE DefaultFields),
           Pair("limit", limit),
           Pair("page", page),
           Pair("sort", Str("Award Amount")),
           Pair("order", Str("desc")) >>)
BuildPayload(filters, fields, limit, page) ==
    Obj(<< Pair("filters", IF filters = None THEN DefaultFilters ELSE filters),
           Pair("fields", IF fields = None THEN DefaultFields ELSE fields),
           Pair("limit", limit),
           Pair("page", page),
           Pair("sort", Str("Award Amount")),
           Pair("order", Str("desc")) >>)

\* A simulated reply of the remote API.
\*   status: "network" (no response at all), "error" (non-2xx), "ok" (2xx)
\*   text:   "empty", "nonjson" (body is not JSON), "json" (body parses)
\*   body:   the parsed body when text = "json"
Response(status, text, body) == [status |-> status, text |-> text, body |-> body]

\* requests.post is called once, line 76
PostRequests_retry(payload, resp) ==
    IF resp.status = "ok" THEN << [url |-> Url, json |-> payload] >>
    ELSE << [url |-> Url, json |-> payload], [url |-> Url, json |-> payload] >>
PostRequests(payload, resp) == << [url |-> Url, json |-> payload] >>

\* lines 76-79: does the try block raise a RequestException?
\* (ConnectionError, HTTPError from raise_for_status, or the JSONDecodeError
\*  of response.json(), a RequestException subclass since requests 2.27)
RaisesRequestException(resp) ==
    \/ resp.status = "network"
    \/ resp.status = "error"
    \/ resp.status = "ok" /\ resp.text # "json"

\* lines 86-92: best-effort detail extraction, any failure swallowed
ErrorDetailLog(resp) ==
    IF resp.status = "error" /\ resp.text = "json" /\ Truthy(resp.body)
    THEN << "API Error Details" >>
    ELSE << >>

\* line 80: len(data.get('results', [])) is evaluated inside the try block
\* but can raise only non-RequestException errors
SuccessPrintError(data) ==
    IF ~IsDict(data) THEN "AttributeError"
    ELSE IF ~IsSized(Get(data, "results", List(<<>>))) THEN "TypeError"
    ELSE "none"

\* lines 74-93: outcome of the call for a given reply
FetchOutcome_emptyisnull(resp) ==
    IF RaisesRequestException(resp)
    THEN [ret |-> None, raised |-> "none",
          log |-> << "Fetching", "Error fetching data" >> \o ErrorDetailLog(resp)]
    ELSE IF SuccessPrintError(resp.body) # "none"
    THEN [ret |-> None, raised |-> SuccessPrintError(resp.body),
          log |-> << "Fetching" >>]
    ELSE [ret |-> IF Truthy(Get(resp.body, "results", List(<<>>)))
                  THEN resp.body ELSE None,
          raised |-> "none",
          log |-> << "Fetching", "Successfully fetched" >>]
FetchOutcome(resp) ==
    IF RaisesRequestException(resp)
    THEN [ret |-> None, raised |-> "none",
          log |-> << "Fetching", "Error fetching data" >> \o ErrorDetailLog(resp)]
    ELSE IF SuccessPrintError(resp.body) # "none"
    THEN [ret |-> None, raised |-> SuccessPrintError(resp.body),
          log |-> << "Fetching" >>]
    ELSE [ret |-> resp.body, raised |-> "none",
          log |-> << "Fetching", "Successfully fetched" >>]

\* ------------------------------------------------------------ json module
Tok(s) == [tok |-> s]
WS(n)  == [ws |-> n]       \* a newline followed by n levels of 2-space indent

RECURSIVE json_dump(_, _), DumpItems(_, _, _), DumpMembers(_, _, _)
\* json.dump(data, f, indent=2): the text written, as a token sequence
json_dump(v, level) ==
    IF IsList(v)
    THEN IF Len(v.list) = 0 THEN << Tok("["), Tok("]") >>
         ELSE << Tok("[") >> \o DumpItems(v.list, level + 1, 1)
                             \o << WS(level), Tok("]") >>
    ELSE IF IsDict(v)
    THEN IF Len(v.obj) = 0 THEN << Tok("{"), Tok("}") >>
         ELSE << Tok("{") >> \o DumpMembers(v.obj, level + 1, 1)
                             \o << WS(level), Tok("}") >>
    ELSE << v >>
DumpItems(xs, level, i) ==
    IF i > Len(xs) THEN << >>
    ELSE << WS(level) >> \o json_dump(xs[i], level)
         \o (IF i < Len(xs) THEN << Tok(",") >> ELSE << >>)
         \o DumpItems(xs, level, i + 1)
DumpMembers(ps, level, i) ==
    IF i > Len(ps) THEN << >>
    ELSE << WS(level), Str(ps[i].k), Tok(":") >> \o json_dump(ps[i].v, level)
         \o (IF i < Len(ps) THEN << Tok(",") >> ELSE << >>)
         \o DumpMembers(ps, level, i + 1)

\* dict[key] = value while parsing: a repeated key keeps its first position
SetKey(ps, key, v) ==
    IF \E i \in 1..Len(ps) : ps[i].k = key
    THEN [i \in 1..Len(ps) |-> IF ps[i].k = key THEN Pair(key, v) ELSE ps[i]]
    ELSE Append(ps, Pair(key, v))

RECURSIVE SkipWs(_, _), ParseValue(_, _), ParseItems(_, _, _), ParseMembers(_, _, _)
SkipWs(toks, i) ==
    IF i <= Len(toks) /\ "ws" \in DOMAIN toks[i] THEN SkipWs(toks, i + 1) ELSE i
ParseValue(toks, i0) ==
    LET i == SkipWs(toks, i0) IN
    IF toks[i] = Tok("[") THEN ParseItems(toks, i + 1, << >>)
    ELSE IF toks[i] = Tok("{") THEN ParseMembers(toks, i + 1, << >>)
    ELSE [v |-> toks[i], next |-> i + 1]
ParseItems(toks, i0, acc) ==
    LET i == SkipWs(toks, i0) IN
    IF toks[i] = Tok("]") THEN [v |-> List(acc), next |-> i + 1]
    ELSE IF toks[i] = Tok(",") THEN ParseItems(toks, i + 1, acc)
    ELSE LET r == ParseValue(toks, i) IN ParseItems(toks, r.next, Append(acc, r.v))
ParseMembers(toks, i0, acc) ==
    LET i == SkipWs(toks, i0) IN
    IF toks[i] = Tok("}") THEN [v |-> Obj(acc), next |-> i + 1]
    ELSE IF toks[i] = Tok(",") THEN ParseMembers(toks, i + 1, acc)
    ELSE LET r == ParseValue(toks, i + 2)
         IN ParseMembers(toks, r.next, SetKey(acc, toks[i].str, r.v))

\* json.load(f): the value read back from a written file
json_load(toks) == ParseValue(toks, 1).v

\* ------------------------------------------------------------- exporters
\* A file name is caller-supplied or usaspending_data_<timestamp>.<ext>
Named(stem, ext) == [stem |-> stem, ts |-> 0, ext |-> ext]
GeneratedName(now, ext) == [stem |-> "usaspending_data", ts |-> now, ext |-> ext]

File(content) == [exists |-> TRUE, content |-> content]
NoFile == [exists |-> FALSE, content |-> << >>]

\* lines 98-100 and 113-115
FileName(filename, now, ext) ==
    IF filename = None THEN GeneratedName(now, ext) ELSE filename

\* line 103: what save_to_json writes
JsonFileContent_resultsonly(data) == json_dump(Get(data, "results", List(<<>>)), 0)
JsonFileContent(data) == json_dump(data, 0)

\* lines 96-106
save_to_json(files, data, filename, now) ==
    LET name == FileName(filename, now, "json") IN
    [fs |-> [files EXCEPT ![name] = File(JsonFileContent(data))],
     ret |-> name, raised |-> "none", log |-> << "Data saved" >>]

\* csv.DictWriter with the default extrasaction='raise' and restval=''
NL == [nl |-> TRUE]
CsvCell(v) == IF v = None THEN Str("") ELSE v
HeaderLine(fieldnames) ==
    [i \in 1..Len(fieldnames) |-> Str(fieldnames[i])] \o << NL >>
HasExtraKeys(row, fieldnames) ==
    \E i \in 1..Len(row.obj) :
        \A j \in 1..Len(fieldnames) : fieldnames[j] # row.obj[i].k
\* DictWriter._dict_to_list
RowLine(row, fieldnames) ==
    [i \in 1..Len(fieldnames) |-> CsvCell(Get(row, fieldnames[i], Str("")))]
    \o << NL >>
\* number of rows written before writerows stops (all of them, or the rows
\* before the first one that has a key outside fieldnames)
RowsWritten_ignore(rows, fieldnames) == Len(rows)
RowsWritten(rows, fieldnames) ==
    IF \E i \in 1..Len(rows) : HasExtraKeys(rows[i], fieldnames)
    THEN (CHOOSE i \in 1..Len(rows) :
            /\ HasExtraKeys(rows[i], fieldnames)
            /\ \A j \in 1..(i - 1) : ~HasExtraKeys(rows[j], fieldnames)) - 1
    ELSE Len(rows)
RECURSIVE RowLines(_, _, _)
RowLines(rows, fieldnames, n) ==
    IF n = 0 THEN << >>
    ELSE RowLines(rows, fieldnames, n - 1) \o RowLine(rows[n], fieldnames)
\* lines 123-128: the file as it is left when the with-block is exited
CsvFileContent(rows) ==
    LET fieldnames == Keys(rows[1]) IN
    HeaderLine(fieldnames)
    \o RowLines(rows, fieldnames, RowsWritten(rows, fieldnames))

\* lines 109-131
save_to_csv_openfirst(files, data, filename, now) ==
    LET name    == FileName(filename, now, "csv")
        results == Get(data, "results", List(<<>>))
    IN  IF ~IsDict(data)
        THEN [fs |-> files, ret |-> None, raised |-> "AttributeError", log |-> << >>]
        ELSE IF ~Truthy(results)
        THEN [fs |-> [files EXCEPT ![name] = File(<< >>)], ret |-> None,
              raised |-> "none", log |-> << "No results to save" >>]
        ELSE IF RowsWritten(results.list, Keys(results.list[1])) < Len(results.list)
        THEN [fs |-> [files EXCEPT ![name] = File(CsvFileContent(results.list))],
              ret |-> None, raised |-> "ValueError", log |-> << >>]
        ELSE [fs |-> [files EXCEPT ![name] = File(CsvFileContent(results.list))],
              ret |-> name, raised |-> "none", log |-> << "Data saved" >>]
save_to_csv(files, data, filename, now) ==
    LET name    == FileName(filename, now, "csv")
        results == Get(data, "results", List(<<>>))
    IN  IF ~IsDict(data)
        THEN [fs |-> files, ret |-> None, raised |-> "AttributeError", log |-> << >>]
        ELSE IF ~Truthy(results)
        THEN [fs |-> files, ret |-> None, raised |-> "none",
              log |-> << "No results to save" >>]
        ELSE IF RowsWritten(results.list, Keys(results.list[1])) < Len(results.list)
        THEN [fs |-> [files EXCEPT ![name] = File(CsvFileContent(results.list))],
              ret |-> None, raised |-> "ValueError", log |-> << >>]
        ELSE [fs |-> [files EXCEPT ![name] = File(CsvFileContent(results.list))],
              ret |-> name, raised |-> "none", log |-> << "Data saved" >>]

\* ------------------------------------------------------------ environment
\* Result records the simulated API can return
RowAB  == Obj(<< Pair("A", Num(1)), Pair("B", Num(2)) >>)
RowABC == Obj(<< Pair("A", Num(3)), Pair("B", Num(4)), Pair("C", Num(5)) >>)
RowB   == Obj(<< Pair("B", None) >>)
RowSet == {RowAB, RowABC, RowB}

ResultListsOver(rows) == UNION {[1..n -> rows] : n \in 0..MaxRecords}

Metadata(rs) == Obj(<< Pair("total", Num(Len(rs))), Pair("page", Num(1)) >>)
Page(rs) == Obj(<< Pair("results", List(rs)), Pair("page_metadata", Metadata(rs)) >>)

\* 2xx bodies that are JSON objects
ObjectBodiesOver(rows) ==
    {Page(rs) : rs \in ResultListsOver(rows)}
    \cup {Obj(<< Pair("results", List(rs)) >>) : rs \in ResultListsOver(rows)}
    \cup {Obj(<< >>), Obj(<< Pair("page_metadata", Metadata(<< >>)) >>),
          Obj(<< Pair("results", None) >>)}
\* 2xx bodies that are JSON but not objects
NonObjectBodies == {List(<< >>), None, Num(0)}
ErrorDetails == {Obj(<< >>), Obj(<< Pair("detail", Str("Invalid filter")) >>)}

FailureReplies ==
    {Response("network", "empty", None),
     Response("error", "empty", None), Response("error", "nonjson", None),
     Response("ok", "empty", None), Response("ok", "nonjson", None)}
    \cup {Response("error", "json", d) : d \in ErrorDetails}
Responses ==
    FailureReplies
    \cup {Response("ok", "json", b) : b \in ObjectBodiesOver(RowSet) \cup NonObjectBodies}
\* replies offered to each page request of example_4
PageResponses ==
    {Response("network", "empty", None), Response("error", "empty", None),
     Response("ok", "nonjson", None), Response("ok", "json", List(<< >>)),
     Response("ok", "json", Obj(<< >>))}
    \cup {Response("ok", "json", Page(rs)) : rs \in ResultListsOver({RowAB, RowABC})}
NoResponse == Response("none", "empty", None)

\* ----------------------------------------------------------------- drivers
SimpleDrivers == {"main", "example_1", "example_2", "example_3",
                  "example_5", "example_6"}
Callers == {"direct", "example_4"} \cup SimpleDrivers

\* examples.py lines 17-30, 44-52, 66-80, 94-102, 134-143, 166-178;
\* main passes no filters (usaspending_api.py line 144)
DriverFilters(c) ==
    CASE c = "example_1" ->
           Obj(<< Pair("award_type_codes", List(<< Str("10") >>)),
                  Pair("award_amounts",
                       List(<< Obj(<< Pair("lower_bound", Num(5000000)) >>) >>)),
                  TimePeriod("2024-01-01", "2024-12-31") >>)
      [] c = "example_2" ->
           Obj(<< Pair("award_type_codes",
                       List(<< Str("02"), Str("03"), Str("04"), Str("05") >>)),
                  TimePeriod("2023-10-01", "2024-09-30") >>)
      [] c = "example_3" ->
           Obj(<< Pair("agencies",
                       List(<< Obj(<< Pair("type", Str("awarding")),
                                      Pair("tier", Str("toptier")),
                                      Pair("name", Str("Department of Health and Human Services")) >>) >>)),
                  TimePeriod("2024-01-01", "2024-12-31") >>)
      [] c = "example_4" ->
           Obj(<< Pair("award_type_codes", List(<< Str("10") >>)),
                  TimePeriod("2024-01-01", "2024-12-31") >>)
      [] c = "example_5" ->
           Obj(<< Pair("recipient_search_text", List(<< Str("university") >>)),
                  Pair("award_type_codes",
                       List(<< Str("02"), Str("03"), Str("04"), Str("05") >>)),
                  TimePeriod("2024-01-01", "2024-12-31") >>)
      [] c = "example_6" ->
           Obj(<< Pair("award_amounts",
                       List(<< Obj(<< Pair("lower_bound", Num(10000000)) >>) >>)),
                  TimePeriod("2024-01-01", "2024-12-31") >>)
      [] OTHER -> None

\* examples.py lines 158-164
CustomFields ==
    List(<< Str("Award ID"), Str("Recipient Name"), Str("Award Amount"),
            Str("Awarding Agency"), Str("Description") >>)
DriverFields(c) == IF c = "example_6" THEN CustomFields ELSE None

DriverLimit(c) ==
    CASE c \in {"example_1", "example_5"} -> Num(25)
      [] c \in {"main", "example_2", "example_3"} -> Num(50)
      [] c = "example_6" -> Num(20)
      [] OTHER -> Num(100)

DriverCsv(c) ==
    CASE c = "main" -> Named("usaspending_awards", "csv")
      [] c = "example_1" -> Named("large_contracts", "csv")
      [] c = "example_2" -> Named("grants_fy2024", "csv")
      [] c = "example_3" -> Named("hhs_awards_2024", "csv")
      [] c = "example_4" -> Named("multiple_pages_contracts", "csv")
      [] c = "example_5" -> Named("university_grants", "csv")
      [] OTHER -> Named("custom_fields_awards", "csv")
MainJson == Named("usaspending_awards", "json")

\* `if data:` in main and in examples 1, 2, 3, 5, 6
DataCheck_missing(d) == TRUE
DataCheck(d) == Truthy(d)

\* examples.py line 109-110: `if data and 'results' in data: extend(...)`
Extend_assign(all, d) ==
    IF Truthy(d) /\ HasKey(d, "results")
    THEN Get(d, "results", List(<< >>)).list
    ELSE all
Extend(all, d) ==
    IF Truthy(d) /\ HasKey(d, "results")
    THEN all \o Get(d, "results", List(<< >>)).list
    ELSE all

\* examples.py line 107: range(1, 4)
LastPage == 3

\* examples.py lines 114-120
CombinedData(all) ==
    Obj(<< Pair("results", List(all)),
           Pair("page_metadata",
                Obj(<< Pair("total", Num(Len(all))), Pair("pages", Num(3)) >>)) >>)

\* arguments of a direct caller (a test or an interactive session)
DirectFilters == {None, Obj(<< >>), DriverFilters("example_1")}
DirectFields  == {None, List(<< >>), CustomFields}
DirectLimits  == {Num(1), Num(100)}
DirectPages   == {Num(p) : p \in 1..MaxPage}
DirectJsonNames == {None, Named("out", "json")}
DirectCsvNames  == {None, Named("out", "csv")}
Clock == 1..MaxClock

AllFiles ==
    {DriverCsv(c) : c \in Callers} \cup {MainJson}
    \cup {Named("out", "json"), Named("out", "csv")}
    \cup {GeneratedName(t, e) : t \in Clock, e \in {"json", "csv"}}
OldFile == File(<< Str("old") >>)

\* ------------------------------------------------------------------- state
VARIABLES
    caller,       \* which program runs: a driver, or a direct caller of the API
    pc,           \* position of the caller
    data,         \* the caller's `data` variable
    all_results,  \* example_4: the accumulated records
    page_num,     \* example_4: the loop variable
    received,     \* example_4: the value each fetch returned, in order
    fs,           \* the files on disk
    op,           \* function called last
    args,         \* its arguments
    sent,         \* HTTP requests it issued
    resp,         \* the reply it got (fetch only)
    ret,          \* its return value
    raised,       \* exception that left it uncaught, or "none"
    log,          \* what it printed
    ncalls, nfetch, nexport   \* calls made so far

vars == << caller, pc, data, all_results, page_num, received, fs, op, args,
           sent, resp, ret, raised, log, ncalls, nfetch, nexport >>

Init ==
    /\ caller \in Callers
    /\ pc = "start"
    /\ data = None
    /\ all_results = << >>
    /\ page_num = 1
    /\ received = << >>
    /\ fs \in {[f \in AllFiles |-> NoFile], [f \in AllFiles |-> OldFile]}
    /\ op = "none"
    /\ args = [none |-> TRUE]
    /\ sent = << >>
    /\ resp = NoResponse
    /\ ret = None
    /\ raised = "none"
    /\ log = << >>
    /\ ncalls = 0
    /\ nfetch = 0
    /\ nexport = 0

\* One call of fetch_spending_data(filters, fields, limit, page) answered by r
CallFetch(filters, fields, limit, page, r) ==
    LET out == FetchOutcome(r) IN
    /\ op' = "fetch"
    /\ args' = [filters |-> filters, fields |-> fields, limit |-> limit, page |-> page]
    /\ sent' = PostRequests(BuildPayload(filters, fields, limit, page), r)
    /\ resp' = r
    /\ ret' = out.ret
    /\ raised' = out.raised
    /\ log' = out.log
    /\ ncalls' = ncalls + 1
    /\ nfetch' = nfetch + 1
    /\ UNCHANGED << fs, nexport >>

\* One call of save_to_json / save_to_csv; out is the function's outcome
CallExport(name, d, filename, out) ==
    /\ op' = name
    /\ args' = [data |-> d, filename |-> filename]
    /\ sent' = << >>
    /\ resp' = NoResponse
    /\ fs' = out.fs
    /\ ret' = out.ret
    /\ raised' = out.raised
    /\ log' = out.log
    /\ ncalls' = ncalls + 1
    /\ nexport' = nexport + 1
    /\ UNCHANGED nfetch

Next_pc(ok) == IF raised' = "none" THEN ok ELSE "crashed"

\* ---- a direct caller: one fetch, then some exports of what it got
DirectFetch ==
    /\ caller = "direct" /\ pc = "start"
    /\ \E filters \in DirectFilters, fields \in DirectFields,
          limit \in DirectLimits, page \in DirectPages, r \in Responses :
          CallFetch(filters, fields, limit, page, r)
    /\ data' = IF raised' = "none" THEN ret' ELSE data
    /\ pc' = Next_pc("run")
    /\ UNCHANGED << caller, all_results, page_num, received >>

DirectSaveJson ==
    /\ caller = "direct" /\ pc = "run" /\ data # None
    /\ nexport < MaxExports
    /\ \E filename \in DirectJsonNames, now \in Clock :
          CallExport("save_to_json", data, filename,
                     save_to_json(fs, data, filename, now))
    /\ pc' = Next_pc("run")
    /\ UNCHANGED << caller, data, all_results, page_num, received >>

DirectSaveCsv ==
    /\ caller = "direct" /\ pc = "run" /\ data # None
    /\ nexport < MaxExports
    /\ \E filename \in DirectCsvNames, now \in Clock :
          CallExport("save_to_csv", data, filename,
                     save_to_csv(fs, data, filename, now))
    /\ pc' = Next_pc("run")
    /\ UNCHANGED << caller, data, all_results, page_num, received >>

\* ---- main and examples 1, 2, 3, 5, 6
\* usaspending_api.py line 144; examples.py lines 32, 54, 82, 145, 180
DriverFetch ==
    /\ caller \in SimpleDrivers /\ pc = "start"
    /\ \E r \in Responses :
          CallFetch(DriverFilters(caller), DriverFields(caller),
                    DriverLimit(caller), Num(1), r)
    /\ data' = IF raised' = "none" THEN ret' ELSE data
    /\ pc' = Next_pc("fetched")
    /\ UNCHANGED << caller, all_results, page_num, received >>

\* the `if data:` test fails: nothing is exported
DriverSkip ==
    /\ caller \in SimpleDrivers /\ pc = "fetched"
    /\ ~DataCheck(data)
    /\ pc' = "done"
    /\ UNCHANGED << caller, data, all_results, page_num, received, fs, op, args,
                    sent, resp, ret, raised, log, ncalls, nfetch, nexport >>

\* usaspending_api.py line 154
MainSaveJson ==
    /\ caller = "main" /\ pc = "fetched"
    /\ DataCheck(data)
    /\ \E now \in Clock :
          CallExport("save_to_json", data, MainJson,
                     save_to_json(fs, data, MainJson, now))
    /\ pc' = Next_pc("saved_json")
    /\ UNCHANGED << caller, data, all_results, page_num, received >>

\* usaspending_api.py line 155; examples.py lines 34, 56, 84, 147, 182
DriverSaveCsv ==
    /\ \/ caller = "main" /\ pc = "saved_json"
       \/ caller \in SimpleDrivers \ {"main"} /\ pc = "fetched" /\ DataCheck(data)
    /\ \E now \in Clock :
          CallExport("save_to_csv", data, DriverCsv(caller),
                     save_to_csv(fs, data, DriverCsv(caller), now))
    /\ pc' = Next_pc("done")
    /\ UNCHANGED << caller, data, all_results, page_num, received >>

\* ---- example_4
\* examples.py lines 107-111: one iteration of the page loop
Ex4FetchPage ==
    /\ caller = "example_4" /\ pc \in {"start", "loop"}
    /\ page_num <= LastPage
    /\ \E r \in PageResponses :
          CallFetch(DriverFilters(caller), None, Num(100), Num(page_num), r)
    /\ pc' = Next_pc("loop")
    /\ IF raised' = "none"
       THEN /\ data' = ret'
            /\ all_results' = Extend(all_results, ret')
            /\ received' = Append(received, ret')
            /\ page_num' = page_num + 1
       ELSE UNCHANGED << data, all_results, received, page_num >>
    /\ UNCHANGED caller

\* examples.py lines 114-122: build the combined structure and export it
Ex4Export ==
    /\ caller = "example_4" /\ pc = "loop"
    /\ page_num > LastPage
    /\ \E now \in Clock :
          CallExport("save_to_csv", CombinedData(all_results), DriverCsv(caller),
                     save_to_csv(fs, CombinedData(all_results), DriverCsv(caller), now))
    /\ pc' = Next_pc("done")
    /\ UNCHANGED << caller, data, all_results, page_num, received >>

Next ==
    \/ DirectFetch
    \/ DirectSaveJson
    \/ DirectSaveCsv
    \/ DriverFetch
    \/ DriverSkip
    \/ MainSaveJson
    \/ DriverSaveCsv
    \/ Ex4FetchPage
    \/ Ex4Export

Spec == Init /\ [][Next]_vars

TypeOK ==
    /\ caller \in Callers
    /\ pc \in {"start", "run", "fetched", "saved_json", "loop", "done", "crashed"}
    /\ op \in {"none", "fetch", "save_to_json", "save_to_csv"}
    /\ raised \in {"none", "AttributeError", "TypeError", "ValueError"}
    /\ page_num \in 1..(LastPage + 1)
    /\ ncalls = nfetch + nexport

\* ------------------------------------------------------------ properties
Exporters == {"save_to_json", "save_to_csv"}

\* the result sequence of a structure, as the code reads it
ResultsOf(d) == Get(d, "results", List(<< >>))

\* a reply that is a failure of the remote call: no reply, a non-2xx status,
\* or a body that is not the documented {results: [...], ...} object
WellFormedBody(r) ==
    r.text = "json" /\ IsDict(r.body) /\ IsList(ResultsOf(r.body))
FailedCall(r) == r.status \in {"network", "error"} \/ ~WellFormedBody(r)

\* a 2xx reply with a well-formed body holding zero result records
EmptySuccess(r) ==
    r.status = "ok" /\ WellFormedBody(r) /\ Len(ResultsOf(r.body).list) = 0

\* C1: the body of every POST of a fetch is exactly {filters, fields, limit,
\* page, sort: "Award Amount", order: "desc"}; supplied filters and fields
\* appear verbatim, also when empty; limit and page are passed through; the
\* one-year time_period filter and the eleven default columns are substituted
\* only for omitted arguments.
C1_PayloadVerbatim ==
    op = "fetch" =>
        /\ Len(sent) >= 1
        /\ \A i \in 1..Len(sent) :
            LET body == sent[i].json IN
            /\ sent[i].url = Url
            /\ Keys(body) = << "filters", "fields", "limit", "page", "sort", "order" >>
            /\ Get(body, "limit", None) = args.limit
            /\ Get(body, "page", None) = args.page
            /\ Get(body, "sort", None) = Str("Award Amount")
            /\ Get(body, "order", None) = Str("desc")
            /\ args.filters # None => Get(body, "filters", None) = args.filters
            /\ args.fields # None => Get(body, "fields", None) = args.fields
            /\ args.filters = None =>
                 /\ Keys(Get(body, "filters", None)) = << "time_period" >>
                 /\ Get(body, "filters", None) = DefaultFilters
            /\ args.fields = None =>
                 /\ Len(Get(body, "fields", None).list) = 11
                 /\ Get(body, "fields", None) = DefaultFields
C1_Witness ==
    /\ op = "fetch"
    /\ args.filters = Obj(<< >>) /\ args.fields = None /\ args.page = Num(2)
    /\ Get(sent[1].json, "filters", None) = Obj(<< >>)

\* C2: for every failure of the remote call (network error, non-2xx status,
\* malformed response body) fetch_spending_data returns null and raises no
\* uncaught error.
C2_FailureReturnsNull ==
    (op = "fetch" /\ FailedCall(resp)) => (ret = None /\ raised = "none")

\* C3: save_to_csv of records {A,B} then {A,B,C} writes a two-column file
\* with one row per record, returns the filename and raises no error.
C3_ExtraKeyDropped ==
    (op = "save_to_csv" /\ IsDict(args.data)
        /\ ResultsOf(args.data) = List(<< RowAB, RowABC >>))
    => /\ raised = "none"
       /\ ret # None
       /\ fs[ret].content = << Str("A"), Str("B"), NL,
                               Num(1), Num(2), NL,
                               Num(3), Num(4), NL >>

\* C4: with zero result records save_to_csv returns null and leaves every
\* file as it was (created nothing, truncated nothing), with or without a
\* supplied filename; save_to_json of the same structure writes a file that
\* holds the empty result sequence and returns its name.
ZeroRecords(d) == IsDict(d) /\ HasKey(d, "results") /\ ResultsOf(d) = List(<< >>)
C4_EmptyResultExport ==
    [][/\ (op' = "save_to_csv" /\ ncalls' # ncalls /\ ZeroRecords(args'.data))
            => (ret' = None /\ raised' = "none" /\ fs' = fs)
       /\ (op' = "save_to_json" /\ ncalls' # ncalls /\ ZeroRecords(args'.data))
            => /\ raised' = "none"
               /\ ret' # None
               /\ args'.filename # None => ret' = args'.filename
               /\ fs'[ret'].exists
               /\ ResultsOf(json_load(fs'[ret'].content)) = List(<< >>)
               /\ \A f \in AllFiles \ {ret'} : fs'[f] = fs[f]]_vars
C4_Witness ==
    /\ op = "save_to_csv" /\ ZeroRecords(args.data) /\ ret = None
    /\ args.filename = Named("out", "csv")
    /\ fs[Named("out", "csv")] = OldFile
    /\ \E t \in Clock :
          /\ fs[GeneratedName(t, "json")].exists
          /\ json_load(fs[GeneratedName(t, "json")].content) = args.data

\* C5: on a 2xx reply whose JSON body holds N records the fetch returns the
\* parsed body unmodified, and what save_to_json wrote reads back as a
\* structure equal to the one it was given (the fetched one).
C5_RoundTrip ==
    /\ (op = "fetch" /\ resp.status = "ok" /\ WellFormedBody(resp))
         => /\ raised = "none"
            /\ ret = resp.body
            /\ data = ret
            /\ Len(ResultsOf(ret).list) = Len(ResultsOf(resp.body).list)
    /\ (op = "save_to_json" /\ caller \in {"direct", "main"})
         => /\ args.data = data
            /\ ret # None
            /\ fs[ret].exists
            /\ json_load(fs[ret].content) = data
C5_Witness ==
    /\ op = "save_to_json" /\ caller = "direct"
    /\ data = Page(<< RowAB, RowB >>)
    /\ json_load(fs[ret].content) = Page(<< RowAB, RowB >>)

RequestFailed(r) == r.status # "ok" \/ r.text # "json"
RecordsOf(d) == IF d = None THEN << >> ELSE ResultsOf(d).list
RECURSIVE Concat(_, _)
Concat(pages, n) ==
    IF n = 0 THEN << >> ELSE Concat(pages, n - 1) \o RecordsOf(pages[n])
RECURSIVE SumCounts(_, _)
SumCounts(pages, n) ==
    IF n = 0 THEN 0 ELSE SumCounts(pages, n - 1) + Len(RecordsOf(pages[n]))
C7_CombinedLength ==
    caller = "example_4" =>
        /\ Len(received) = page_num - 1
        /\ all_results = Concat(received, Len(received))
        /\ Len(all_results) = SumCounts(received, Len(received))
        /\ page_num > LastPage => Len(received) = 3
C7_Witness ==
    /\ caller = "example_4" /\ page_num > LastPage
    /\ received[1] = None /\ received[2] # None /\ received[3] # None
    /\ Len(all_results) = 3

\* C8: every error of the taxonomy (network failure, non-2xx status,
\* malformed response body, empty result set for CSV export) ends the call
\* with a logged message and a null return, and is never fatal to the caller.
TaxonomyError ==
    \/ op = "fetch" /\ FailedCall(resp)
    \/ op = "save_to_csv" /\ IsDict(args.data) /\ ~Truthy(ResultsOf(args.data))
C8_ErrorsIsolated ==
    (op # "none" /\ TaxonomyError) =>
        /\ ret = None
        /\ raised = "none"
        /\ Len(log) > 0
        /\ pc # "crashed"

\* C9: a fetch issues exactly one POST to the fixed endpoint, also when it
\* fails, and returns the whole parsed body or null.
C9_SinglePost ==
    op = "fetch" =>
        /\ Len(sent) = 1
        /\ sent[1].url = Url
        /\ (ret = None \/ ret = resp.body)
C9_Witness ==
    /\ op = "fetch" /\ resp.status = "error" /\ resp.text = "nonjson"
    /\ Len(sent) = 1 /\ ret = None /\ raised = "none"

\* C10: a driver exports only after fetching and never a null structure;
\* after a failed fetch nothing is exported; example_4 exports its freshly
\* built combined structure, and when all three pages failed that export
\* returns null and writes no file.
C10_ExportNeverNull ==
    /\ (caller # "direct" /\ op \in Exporters)
         => (args.data # None /\ IsDict(args.data) /\ nfetch >= 1)
    /\ (caller \in SimpleDrivers /\ op \in Exporters)
         => (args.data = data /\ nfetch = 1)
    /\ (caller \in SimpleDrivers /\ data = None) => nexport = 0
    /\ (caller = "example_4" /\ op \in Exporters)
         => /\ op = "save_to_csv" /\ nfetch = 3 /\ nexport = 1
            /\ args.data = CombinedData(all_results)
            /\ (\A i \in 1..3 : received[i] = None)
                 => /\ ret = None /\ raised = "none"
                    /\ fs[DriverCsv("example_4")] \in {NoFile, OldFile}
C10_Witness ==
    /\ caller = "example_4" /\ op = "save_to_csv"
    /\ received = << None, None, None >>
    /\ args.data = CombinedData(<< >>)
    /\ ret = None /\ pc = "done"

====
